---- MODULE Spec2Model ----
(***************************************************************************)
(* The analysis script of app.py (AtmoSight), from the geocoding call to   *)
(* the insight text: geocode_location, fetch_power_point, build_dataframe, *)
(* the day-of-year selection, the descriptive statistics, the polyfit      *)
(* trend and the volatility label.                                         *)
(*                                                                         *)
(* Numbers are exact.  A float that pandas/numpy would hold is kept as a   *)
(* fraction <<numerator, denominator>>; NaN is the empty tuple <<>>.       *)
(* A cell of the raw mapping is <<v>> (a number) or <<>> (JSON null).      *)
(* A date key "YYYYMMDD" is the integer YYYYMMDD.                          *)
(***************************************************************************)
EXTENDS Integers, Sequences, FiniteSets

VARIABLES pc, exc, lookup, lat, lon, json_data, df, tm_yday, selected,
          values, mean_val, std_val, max_val, min_val, prob_extreme,
          slope, trend_text, volatility

vars == <<pc, exc, lookup, lat, lon, json_data, df, tm_yday, selected,
          values, mean_val, std_val, max_val, min_val, prob_extreme,
          slope, trend_text, volatility>>

----------------------------------------------------------------------------
(* Bounds and program constants *)

\* number of years of history in a response (the program: 1991..this year)
NumYears == 6

\* year_start
FirstYear == 1991

\* the fallback coordinate 24.8607, 67.0011, in units of 1e-4 degree
FallbackLat == 248607
FallbackLon == 670011

\* mean_val + 2 * std_val
SigmaFactor == 2

\* prob_extreme > 0.15, as the fraction 15/100
VolatileNum == 15
VolatileDen == 100

NaN == <<>>

\* the calendar day (MMDD) a modelled response holds for each of its years;
\* 0229 does not exist in 1991
MonthDays == {101, 229, 1231}

\* the days-of-year the user picks
TargetDays == {1, 365, 366}

\* a cell of the mapping: null, or a number
Cells == {<<>>, <<0>>, <<1>>}

\* coordinates a successful lookup returns (Faisalabad), in 1e-4 degree
Places == {<<314180, 730790>>}

----------------------------------------------------------------------------
(* Calendar: pd.to_datetime and Series.dt.dayofyear / Series.dt.year *)

IsLeap(y) == (y % 4 = 0 /\ y % 100 # 0) \/ y % 400 = 0

DaysInMonth(y, m) ==
    IF m = 2 THEN (IF IsLeap(y) THEN 29 ELSE 28)
    ELSE IF m \in {4, 6, 9, 11} THEN 30 ELSE 31

\* the fields pd.to_datetime reads from a key "YYYYMMDD"
KeyDate(k) == [year |-> k \div 10000, month |-> (k \div 100) % 100, day |-> k % 100]

\* pd.to_datetime raises on a key that names no calendar date
Parseable(k) ==
    LET t == KeyDate(k)
    IN  /\ t.month \in 1..12
        /\ t.day \in 1..DaysInMonth(t.year, t.month)

to_datetime(k) == KeyDate(k)

RECURSIVE DaysBefore(_, _)
DaysBefore(y, m) == IF m = 1 THEN 0 ELSE DaysBefore(y, m - 1) + DaysInMonth(y, m - 1)

\* the day of the year counted with the month lengths of a common year
DayOfYearCommon(t) == DaysBefore(FirstYear, t.month) + t.day

dayofyear(t) == DaysBefore(t.year, t.month) + t.day

DateLess(a, b) ==
    \/ a.year < b.year
    \/ a.year = b.year /\ a.month < b.month
    \/ a.year = b.year /\ a.month = b.month /\ a.day < b.day

----------------------------------------------------------------------------
(* Responses the data service can send *)

Reverse(s) == [i \in 1..Len(s) |-> s[Len(s) + 1 - i]]

Rotate(s) == IF Len(s) = 0 THEN s ELSE Tail(s) \o <<Head(s)>>

\* one entry per year for the calendar day md, chronological
Column(md, cells) == [i \in 1..Len(cells) |-> <<(FirstYear + i - 1) * 10000 + md, cells[i]>>]

\* the orders in which the entries of a mapping arrive
Arrivals(s) == {s, Rotate(s), Reverse(s)}

Mappings ==
    UNION { UNION { Arrivals(Column(md, cells)) : cells \in [1..n -> Cells] }
            : md \in MonthDays, n \in 0..NumYears }

\* has: whether properties.parameter holds the requested parameter
Responses == [has : {TRUE}, data : Mappings] \cup {[has |-> FALSE, data |-> <<>>]}

----------------------------------------------------------------------------
Init ==
    /\ pc = "geocode"
    /\ exc = "none"
    /\ lookup = "pending"
    /\ lat = 0
    /\ lon = 0
    /\ json_data = [has |-> FALSE, data |-> <<>>]
    /\ df = <<>>
    /\ tm_yday = 0
    /\ selected = <<>>
    /\ values = <<>>
    /\ mean_val = NaN
    /\ std_val = NaN
    /\ max_val = NaN
    /\ min_val = NaN
    /\ prob_extreme = NaN
    /\ slope = NaN
    /\ trend_text = ""
    /\ volatility = ""

----------------------------------------------------------------------------
(* build_dataframe *)

\* json_resp.get("properties", {}).get("parameter", {}).get(parameter, {})
ParameterData(resp) == IF resp.has THEN resp.data ELSE <<>>

\* [{"date": pd.to_datetime(k), parameter: v} for k, v in data.items()]
Records(data) == [i \in 1..Len(data) |-> [date |-> to_datetime(data[i][1]), val |-> data[i][2]]]

RECURSIVE InsertByDate(_, _)
InsertByDate(r, s) ==
    IF s = <<>> THEN <<r>>
    ELSE IF DateLess(r.date, Head(s).date) THEN <<r>> \o s
    ELSE <<Head(s)>> \o InsertByDate(r, Tail(s))

\* the records left in their order of arrival
NoSort(recs) == recs

\* DataFrame.sort_values("date").reset_index(drop=True)
RECURSIVE sort_values(_)
sort_values(recs) ==
    IF recs = <<>> THEN <<>>
    ELSE InsertByDate(Head(recs), sort_values(Tail(recs)))

\* what build_dataframe raises, "none" when it returns
BuildRaises(resp) ==
    LET data == ParameterData(resp)
    IN  IF \E i \in 1..Len(data) : ~Parseable(data[i][1]) THEN "ValueError"
        ELSE IF data = <<>> THEN "KeyError"
        ELSE "none"

----------------------------------------------------------------------------
(* The selection and the statistics *)

\* df[df["doy"] == date_in.timetuple().tm_yday]
DaySample(frame, d) == SelectSeq(frame, LAMBDA r : dayofyear(r.date) = d)

\* selected[var].dropna()
dropna(sample) ==
    LET present == SelectSeq(sample, LAMBDA r : r.val # NaN)
    IN  [i \in 1..Len(present) |-> present[i].val[1]]

RECURSIVE Sum(_)
Sum(s) == IF s = <<>> THEN 0 ELSE Head(s) + Sum(Tail(s))

SumSq(s) == Sum([i \in 1..Len(s) |-> s[i] * s[i]])

SeqMax(s) == CHOOSE v \in {s[i] : i \in 1..Len(s)} : \A j \in 1..Len(s) : s[j] <= v
SeqMin(s) == CHOOSE v \in {s[i] : i \in 1..Len(s)} : \A j \in 1..Len(s) : s[j] >= v

\* Series.mean(): the fraction sum / count, NaN for no value
Mean(s) == IF s = <<>> THEN NaN ELSE <<Sum(s), Len(s)>>

\* Series.std(ddof=0), held by its square, the population variance
\* (N * sum of squares - square of the sum) / N^2
Std0(s) ==
    IF s = <<>> THEN NaN
    ELSE <<Len(s) * SumSq(s) - Sum(s) * Sum(s), Len(s) * Len(s)>>

\* v >= mean_val + 2 * std_val
ExceedsOrEqual(v, m, sd) ==
    /\ m # NaN
    /\ sd # NaN
    /\ LET dev == m[2] * v - m[1]
       IN  /\ dev >= 0
           /\ dev * dev * sd[2] >= SigmaFactor * SigmaFactor * sd[1] * m[2] * m[2]

\* v > mean_val + 2 * std_val, with mean m = S/N and std^2 = sd:
\* v - S/N > 2 * sqrt(sd)  iff  N*v - S > 0 and (N*v - S)^2 > 4 * sd * N^2.
\* A comparison with NaN is False.
Exceeds(v, m, sd) ==
    /\ m # NaN
    /\ sd # NaN
    /\ LET dev == m[2] * v - m[1]
       IN  /\ dev > 0
           /\ dev * dev * sd[2] > SigmaFactor * SigmaFactor * sd[1] * m[2] * m[2]

\* (values > mean_val + 2 * std_val).mean(): the mean of a boolean Series
ProbExtreme(s, m, sd) ==
    IF s = <<>> THEN NaN
    ELSE <<Cardinality({i \in 1..Len(s) : Exceeds(s[i], m, sd)}), Len(s)>>

----------------------------------------------------------------------------
(* np.polyfit(selected["date"].dt.year, selected[var], 1)[0] *)

YearsOf(sample) == [i \in 1..Len(sample) |-> sample[i].date.year]

\* the least-squares slope (n*Sxy - Sx*Sy) / (n*Sxx - Sx^2) of ys against xs
OlsSlope(xs, ys) ==
    LET n == Len(xs)
    IN  <<n * Sum([i \in 1..n |-> xs[i] * ys[i]]) - Sum(xs) * Sum(ys),
          n * SumSq(xs) - Sum(xs) * Sum(xs)>>

\* whether the value column of the frame holds only nulls: pandas then keeps
\* it as an object column of None, otherwise as float64 with NaN for null
ObjectColumn(frame) == frame # <<>> /\ \A i \in 1..Len(frame) : frame[i].val = NaN

\* The outcomes of the call on the sample, object telling the dtype of the
\* value column.  An empty x raises TypeError ("expected non-empty vector
\* for x"); a column of None raises TypeError at y + 0.0.  A NaN in y
\* reaches LAPACK's gelsd, which depending on the build returns NaN
\* coefficients or reports failure (LinAlgError).  One point gives the
\* minimum-norm solution of slope * x + intercept = y over the scaled
\* columns: slope = y / (2x).  Otherwise the least-squares slope.
PolyfitOutcomes(sample, object) ==
    IF sample = <<>> THEN {[raises |-> "TypeError", slope |-> NaN]}
    ELSE IF object THEN {[raises |-> "TypeError", slope |-> NaN]}
    ELSE IF \E i \in 1..Len(sample) : sample[i].val = NaN
    THEN {[raises |-> "none", slope |-> NaN], [raises |-> "LinAlgError", slope |-> NaN]}
    ELSE IF Len(sample) = 1
    THEN {[raises |-> "none", slope |-> <<sample[1].val[1], 2 * sample[1].date.year>>]}
    ELSE {[raises |-> "none", slope |-> OlsSlope(YearsOf(sample), dropna(sample))]}

\* "increasing" if slope > 0 else "decreasing" if slope < 0 else "stable"
TrendText(sl) ==
    IF sl # NaN /\ sl[1] > 0 THEN "increasing"
    ELSE IF sl # NaN /\ sl[1] < 0 THEN "decreasing"
    ELSE "stable"

\* 'more volatile' if prob_extreme > 0.15 else 'generally stable'
Volatility(p) ==
    IF p # NaN /\ p[1] * VolatileDen > VolatileNum * p[2] THEN "more volatile"
    ELSE "generally stable"

----------------------------------------------------------------------------
(* The script, one action per step *)

\* lat, lon = geocode_location(location_input)
geocode_location ==
    /\ pc = "geocode" /\ exc = "none"
    /\ \/ \E pl \in Places :
             /\ lookup' = "found"
             /\ lat' = pl[1] /\ lon' = pl[2]
             /\ pc' = "fetch" /\ exc' = exc
       \/ /\ lookup' = "none"
          /\ lat' = FallbackLat /\ lon' = FallbackLon
          /\ pc' = "fetch" /\ exc' = exc
       \/ /\ lookup' = "error"
          /\ exc' = "GeocoderServiceError"
          /\ UNCHANGED <<pc, lat, lon>>
    /\ UNCHANGED <<json_data, df, tm_yday, selected, values, mean_val, std_val,
                   max_val, min_val, prob_extreme, slope, trend_text, volatility>>

\* json_data = fetch_power_point(lat, lon, year_start, year_end, var)
fetch_power_point ==
    /\ pc = "fetch" /\ exc = "none"
    /\ \/ \E resp \in Responses :
             /\ json_data' = resp
             /\ pc' = "build" /\ exc' = exc
       \/ /\ exc' = "HTTPError"
          /\ UNCHANGED <<pc, json_data>>
    /\ UNCHANGED <<lookup, lat, lon, df, tm_yday, selected, values, mean_val, std_val,
                   max_val, min_val, prob_extreme, slope, trend_text, volatility>>

\* df = build_dataframe(json_data, var)
build_dataframe ==
    /\ pc = "build" /\ exc = "none"
    /\ \/ /\ BuildRaises(json_data) = "none"
          /\ df' = sort_values(Records(ParameterData(json_data)))
          /\ pc' = "select" /\ exc' = exc
       \/ /\ BuildRaises(json_data) # "none"
          /\ exc' = BuildRaises(json_data)
          /\ UNCHANGED <<pc, df>>
    /\ UNCHANGED <<lookup, lat, lon, json_data, tm_yday, selected, values, mean_val,
                   std_val, max_val, min_val, prob_extreme, slope, trend_text, volatility>>

\* df["doy"] = ...; selected = df[df["doy"] == date_in.timetuple().tm_yday]
Select ==
    /\ pc = "select" /\ exc = "none"
    /\ \E d \in TargetDays :
          /\ tm_yday' = d
          /\ selected' = DaySample(df, d)
    /\ pc' = "stats"
    /\ UNCHANGED <<exc, lookup, lat, lon, json_data, df, values, mean_val, std_val,
                   max_val, min_val, prob_extreme, slope, trend_text, volatility>>

\* values, mean_val, std_val, max_val, min_val, prob_extreme
Statistics ==
    /\ pc = "stats" /\ exc = "none"
    /\ LET v == dropna(selected)
       IN  /\ values' = v
           /\ mean_val' = Mean(v)
           /\ std_val' = Std0(v)
           /\ max_val' = IF v = <<>> THEN NaN ELSE <<SeqMax(v)>>
           /\ min_val' = IF v = <<>> THEN NaN ELSE <<SeqMin(v)>>
           /\ prob_extreme' = ProbExtreme(v, Mean(v), Std0(v))
    /\ pc' = "trend"
    /\ UNCHANGED <<exc, lookup, lat, lon, json_data, df, tm_yday, selected,
                   slope, trend_text, volatility>>

\* slope = np.polyfit(...)[0]; trend_text = ...
Trend ==
    /\ pc = "trend" /\ exc = "none"
    /\ \E o \in PolyfitOutcomes(selected, ObjectColumn(df)) :
          \/ /\ o.raises = "none"
             /\ slope' = o.slope
             /\ trend_text' = TrendText(o.slope)
             /\ pc' = "insight" /\ exc' = exc
          \/ /\ o.raises # "none"
             /\ exc' = o.raises
             /\ UNCHANGED <<pc, slope, trend_text>>
    /\ UNCHANGED <<lookup, lat, lon, json_data, df, tm_yday, selected, values, mean_val,
                   std_val, max_val, min_val, prob_extreme, volatility>>

\* the Weather Insight text
Insight ==
    /\ pc = "insight" /\ exc = "none"
    /\ volatility' = Volatility(prob_extreme)
    /\ pc' = "done"
    /\ UNCHANGED <<exc, lookup, lat, lon, json_data, df, tm_yday, selected, values,
                   mean_val, std_val, max_val, min_val, prob_extreme, slope, trend_text>>

Next ==
    \/ geocode_location
    \/ fetch_power_point
    \/ build_dataframe
    \/ Select
    \/ Statistics
    \/ Trend
    \/ Insight

Spec == Init /\ [][Next]_vars

----------------------------------------------------------------------------
(* Positions of the script *)

GeocodeRan == lookup # "pending"
BuildRan == pc \in {"select", "stats", "trend", "insight", "done"} \/ (pc = "build" /\ exc # "none")
SelectRan == pc \in {"stats", "trend", "insight", "done"}
StatsRan == pc \in {"trend", "insight", "done"}
TrendRan == pc \in {"insight", "done"} \/ (pc = "trend" /\ exc # "none")
Ended == pc = "done" \/ exc # "none"

Directions == {"increasing", "decreasing", "stable"}

\* the records of a sample whose value is present
Present(sample) == SelectSeq(sample, LAMBDA r : r.val # NaN)

----------------------------------------------------------------------------
(* C1: when no record of the series falls on the target day-of-year, the   *)
(* analysis ends without raising, with stats = NoData (count 0, every      *)
(* statistic undefined), trend = InsufficientData and insight =            *)
(* InsufficientData.                                                       *)
NoDataPath ==
    (SelectRan /\ selected = <<>> /\ Ended) =>
        /\ exc = "none"
        /\ values = <<>>
        /\ mean_val = NaN /\ std_val = NaN /\ min_val = NaN /\ max_val = NaN
        /\ prob_extreme = NaN
        /\ trend_text = "insufficient data"
        /\ volatility = "insufficient data"

(* C2: a sample with present values for fewer than 2 years gets the trend  *)
(* "insufficient data": no direction among increasing / decreasing /       *)
(* stable is reported for it.                                              *)
InsufficientDataTrend ==
    (TrendRan /\ exc = "none" /\ Len(values) < 2) =>
        /\ trend_text = "insufficient data"
        /\ trend_text \notin Directions

(* C3: a missing value never enters the trend fit: for a sample with some  *)
(* missing values the fit succeeds and the reported direction is the one   *)
(* reported for the same sample with the missing records removed; the      *)
(* statistics are those of the present values.                             *)
MissingExcluded ==
    (TrendRan /\ Len(values) >= 1 /\ Len(values) < Len(selected)) =>
        /\ exc = "none"
        /\ \E o \in PolyfitOutcomes(Present(selected), FALSE) :
              o.raises = "none" /\ trend_text = TrendText(o.slope)
        /\ mean_val = Mean(dropna(Present(selected)))
        /\ prob_extreme[2] = Len(Present(selected))

(* C4: build_dataframe never fails: it returns the records whose date      *)
(* parses, sorted, dropping the others, and an empty Series for an empty   *)
(* mapping or a response without the parameter.                            *)
NormalizerTotal ==
    BuildRan =>
        /\ exc = "none"
        /\ LET data == ParameterData(json_data)
               good == SelectSeq(data, LAMBDA e : Parseable(e[1]))
           IN  /\ Len(df) = Len(good)
               /\ \A i \in 1..Len(good) : \E j \in 1..Len(df) :
                     df[j] = [date |-> KeyDate(good[i][1]), val |-> good[i][2]]

(* C5: geocode_location returns a coordinate for every place name; when    *)
(* the lookup fails, by no match or by a service error, it returns the     *)
(* fallback coordinate and no exception escapes.                           *)
GeocodeBoundary ==
    GeocodeRan =>
        /\ exc = "none"
        /\ pc # "geocode"
        /\ lookup # "found" => (lat = FallbackLat /\ lon = FallbackLon)

(* C6: the day sample holds a record of the series if and only if the      *)
(* ordinal day-of-year of its date equals the target day, over all years,  *)
(* and keeps the chronological order of the series.  The ordinal day is    *)
(* counted here as the distance in days from the 1 January of the year, by *)
(* the Gregorian day number.  Checked when the selection has just run.     *)
DayNumber(y, m, d) ==
    LET a == IF m <= 2 THEN 1 ELSE 0
        yy == y + 4800 - a
        mm == m + 12 * a - 3
    IN  d + ((153 * mm + 2) \div 5) + 365 * yy + (yy \div 4) - (yy \div 100) + (yy \div 400)

OrdinalDay(t) == DayNumber(t.year, t.month, t.day) - DayNumber(t.year, 1, 1) + 1

DayOfYearExact ==
    pc = "stats" =>
        /\ \A i \in 1..Len(df) :
              (\E j \in 1..Len(selected) : selected[j] = df[i])
                  <=> OrdinalDay(df[i].date) = tm_yday
        /\ \A j \in 1..Len(selected) : \E i \in 1..Len(df) : df[i] = selected[j]
        /\ \A j, k \in 1..Len(selected) :
              j < k => DateLess(selected[j].date, selected[k].date)

\* day 366 picks the 31 December of the leap years only, out of a series
\* that holds the 31 December of common years as well
DayOfYearExactWitness ==
    /\ SelectRan
    /\ tm_yday = 366
    /\ Len(df) = NumYears
    /\ Len(selected) >= 1
    /\ Len(selected) < Len(df)
    /\ \A j \in 1..Len(selected) :
          selected[j].date.month = 12 /\ selected[j].date.day = 31 /\ IsLeap(selected[j].date.year)

(* C7: whatever the order of the entries of the mapping, the Series        *)
(* build_dataframe returns is non-decreasing by date and holds one record  *)
(* per entry, with the entry's date and value.  Checked when              *)
(* build_dataframe has just returned.                                      *)
SortingInvariant ==
    pc = "select" =>
        LET data == ParameterData(json_data)
        IN  /\ Len(df) = Len(data)
            /\ \A j \in 1..(Len(df) - 1) : ~DateLess(df[j + 1].date, df[j].date)
            /\ \A i \in 1..Len(data) :
                  Cardinality({j \in 1..Len(df) :
                      /\ df[j].date.year * 10000 + df[j].date.month * 100 + df[j].date.day
                            = data[i][1]
                      /\ df[j].val = data[i][2]}) = 1

\* a mapping that arrived out of order has been built
SortingInvariantWitness ==
    /\ BuildRan /\ exc = "none"
    /\ Len(df) >= 3
    /\ \E i \in 1..(Len(json_data.data) - 1) : json_data.data[i][1] > json_data.data[i + 1][1]
    /\ \E i \in 1..(Len(json_data.data) - 1) : json_data.data[i][1] < json_data.data[i + 1][1]

(* C8: with N >= 1 present values, exceedance_frequency is the number of   *)
(* present values strictly greater than mean + 2 * std_dev, over N, with   *)
(* std_dev the population standard deviation; a value equal to the         *)
(* threshold is not counted; identical values give frequency 0 and a mean  *)
(* equal to the value.  With S the sum and D2 the sum of (N*v - S)^2:      *)
(* mean = S/N, std_dev^2 = D2/N^3, and v > mean + 2*std_dev iff            *)
(* N*v - S > 0 and N*(N*v - S)^2 > 4*D2.  Checked when the statistics     *)
(* have just been computed.                                                *)
ExceedanceFrequency ==
    (pc = "trend" /\ Len(values) >= 1) =>
        LET N == Len(values)
            S == Sum(values)
            D2 == Sum([i \in 1..N |-> (N * values[i] - S) * (N * values[i] - S)])
            above == {i \in 1..N : /\ N * values[i] - S > 0
                                   /\ N * (N * values[i] - S) * (N * values[i] - S) > 4 * D2}
        IN  /\ mean_val # NaN /\ std_val # NaN /\ prob_extreme # NaN
            /\ mean_val[2] > 0 /\ mean_val[1] * N = S * mean_val[2]
            /\ std_val[2] > 0 /\ std_val[1] * N * N * N = D2 * std_val[2]
            /\ prob_extreme[2] > 0 /\ prob_extreme[1] * N = Cardinality(above) * prob_extreme[2]
            /\ (\A i \in 1..N : values[i] = values[1]) =>
                  /\ prob_extreme[1] = 0
                  /\ mean_val[1] = values[1] * mean_val[2]
                  /\ std_val[1] = 0

\* one value of six lies above mean + 2 * std_dev and is counted
ExceedanceFrequencyWitness ==
    /\ StatsRan
    /\ Len(values) = 6
    /\ prob_extreme = <<1, 6>>
    /\ std_val[1] > 0

(* C9: with present values in at least 2 years the fit succeeds and the    *)
(* direction is "increasing" exactly when the least-squares slope of the   *)
(* present values against their years is > 0, "decreasing" exactly when it *)
(* is < 0 and "stable" exactly when it is 0, never for an undefined slope. *)
(* The sign of the slope is the sign of the covariance                     *)
(* sum (n*x - Sx) * (n*y - Sy).                                            *)
TrendDirection ==
    (TrendRan /\ Len(values) >= 2) =>
        LET pr == Present(selected)
            n == Len(pr)
            Sx == Sum([i \in 1..n |-> pr[i].date.year])
            Sy == Sum([i \in 1..n |-> pr[i].val[1]])
            cov == Sum([i \in 1..n |-> (n * pr[i].date.year - Sx) * (n * pr[i].val[1] - Sy)])
        IN  /\ exc = "none"
            /\ slope # NaN
            /\ trend_text = "increasing" <=> cov > 0
            /\ trend_text = "decreasing" <=> cov < 0
            /\ trend_text = "stable" <=> cov = 0

(* C10: the volatility label is "more volatile" if and only if the         *)
(* exceedance frequency is defined and > 0.15, "generally stable" if it is *)
(* defined and <= 0.15, and "insufficient data" when the statistics are    *)
(* undefined.                                                              *)
InsightTotal ==
    pc = "done" =>
        IF prob_extreme = NaN
        THEN volatility = "insufficient data"
        ELSE /\ volatility = "more volatile" <=> 100 * prob_extreme[1] > 15 * prob_extreme[2]
             /\ volatility \in {"more volatile", "generally stable"}

====
